---- MODULE Spec2Model ----
(***************************************************************************)
(* Round state machine of the arena game: the zustand stores (useGame,     *)
(* usePauseStore, useControls, usePointerLockStore, usePhysicsClock,       *)
(* useAIBallsStore, useBallStore, useAIBallScaleStore, useWinStore), the   *)
(* PowerUp component (state, refs, effects, frame callback) and the        *)
(* GameManager handlers that sequence them.                                *)
(*                                                                         *)
(* Encodings.  The player is entity 0, the AI balls are 1..NumAI.  A scale *)
(* is stored as its exponent k, the scale being 1.25^k (1.0 is k = 0).     *)
(* Date.now() is the variable now, counted from the last round reset and   *)
(* capped at MaxNow.  Positions are abstracted to inRange, the set of      *)
(* entities whose planar distance to the power-up is below                 *)
(* COLLECTION_DISTANCE.                                                    *)
(***************************************************************************)
EXTENDS Integers, Sequences, FiniteSets, TLC

\* ---- bounds of the model ----
NumAI == 2
MaxNow == 0
MaxGrowTimers == 1
MaxTs == 2
MaxResolverCount == 4
MaxDelta == 13
MaxTime == 30
MaxWall == 6
MaxCalls == 3
MaxScale == 2
MaxVel == 1
MaxPos == 1

\* ---- program constants ----
MAX_POWER_UPS == 12
PRIMARY_WIN_COUNT == 5

AIIds == 1..NumAI
Entities == 0..NumAI
Null == -1

VARIABLES
  phase,                      \* useGame.phase
  hasSelectedLevel,           \* useDifficulty.hasSelectedLevel
  isPaused,                   \* usePauseStore.isPaused
  isInputEnabled,             \* useControls.isInputEnabled
  hasPlayerStartedMoving,     \* useControls.hasPlayerStartedMoving
  isLocked,                   \* usePointerLockStore.isLocked / document.pointerLockElement
  physicsClock,               \* usePhysicsClock: [isPaused, isFirstFrameAfterResume]
  powerUpState,               \* PowerUp: [active, position]
  powerUpsCollected,          \* PowerUp: collected counter
  isCollecting,               \* PowerUp: collection flag (state)
  isCollectingRef,            \* PowerUp: collection lock (ref)
  respawnTimeout,             \* PowerUp: the 2000 ms respawn timer is pending
  inRange,                    \* entities within COLLECTION_DISTANCE of the power-up
  credited,                   \* collections credited since the power-up last became active
  playerPowerUpsCollected,    \* useAIBallsStore.playerPowerUpsCollected
  playerCollectionTimestamps, \* useAIBallsStore.playerCollectionTimestamps
  aiBalls,                    \* useAIBallsStore.aiBalls: sequence of [id, powerUpsCollected, collectionTimestamps]
  scale,                      \* useBallStore.scale (exponent)
  isGrowing,                  \* useBallStore.isGrowing
  scales,                     \* useAIBallScaleStore.scales (exponents, partial map)
  aiIsGrowing,                \* useAIBallScaleStore.isGrowing (set of ids whose flag is true)
  aiGrowTimers,               \* pending 500 ms timers of useAIBallScaleStore.growBall, per id
  win,                        \* useWinStore
  aiForced,                   \* an AI body got a force, impulse or velocity change since the last reset
  now,                        \* Date.now()
  frameTime,                  \* PhysicsWorld: state.clock.elapsedTime, in ticks of 1/120 s
  prevTimeRef,                \* PhysicsWorld: prevTimeRef.current (Null or a time)
  accumulatorRef,             \* PhysicsWorld: accumulatorRef.current, in ticks
  justResumedRef,             \* PhysicsWorld: justResumedRef.current
  wasPausedRef,               \* PhysicsWorld: wasPausedRef.current
  stepsTaken,                 \* PhysicsWorld: fixed steps executed by the last frame
  totalSteps,                 \* fixed steps executed since the initialization frame
  elapsed,                    \* sum of the frame deltas since the initialization frame
  discardedTime,              \* ticks dropped by the 0.1 s clamp and by the 4-step cap
  wholeDiscarded,             \* whole fixed steps among the dropped ticks, frame by frame
  clockState,                 \* usePhysicsClock with its timestamps, in ticks of 1/120 s
  wallClock,                  \* performance.now(), in ticks
  tickReturned,               \* the value returned by the last call of tick
  lastTickArg,                \* the currentTime argument of the last call of tick
  clockCalls,                 \* the last calls made on the clock, oldest first
  bodies,                     \* the cannon-es body of each entity (bodyRef.current)
  booster,                    \* useSpeedBooster: [isActive, hasBeenUsed, boosterCount]
  boosterRefs,                \* SpeedBoosterLogic: isActiveRef, propertiesChangedRef, originalDampingRef
  playerBodyProps             \* the player body's mass and linearDamping

vars == << phase, hasSelectedLevel, isPaused, isInputEnabled, hasPlayerStartedMoving,
           isLocked, physicsClock, powerUpState, powerUpsCollected, isCollecting,
           isCollectingRef, respawnTimeout, inRange, credited,
           playerPowerUpsCollected, playerCollectionTimestamps, aiBalls, scale,
           isGrowing, scales, aiIsGrowing, aiGrowTimers, win, aiForced, now,
           frameTime, prevTimeRef, accumulatorRef, justResumedRef, wasPausedRef,
           stepsTaken, totalSteps, elapsed, discardedTime, wholeDiscarded,
           clockState, wallClock, tickReturned, lastTickArg, clockCalls, bodies,
           booster, boosterRefs, playerBodyProps >>

gameVars == << phase, hasSelectedLevel, isPaused, isInputEnabled, hasPlayerStartedMoving,
               isLocked, physicsClock >>
powerUpVars == << powerUpState, powerUpsCollected, isCollecting, isCollectingRef,
                  respawnTimeout, credited >>
scoreVars == << playerPowerUpsCollected, playerCollectionTimestamps, aiBalls >>
stepperVars == << frameTime, prevTimeRef, accumulatorRef, justResumedRef, wasPausedRef,
                  stepsTaken, totalSteps, elapsed, discardedTime, wholeDiscarded >>
clockVars == << clockState, wallClock, tickReturned, lastTickArg, clockCalls >>
boostVars == << booster, boosterRefs, playerBodyProps >>
auxVars == << stepperVars, clockVars, bodies, boostVars >>
growVars == << scale, isGrowing, scales, aiIsGrowing, aiGrowTimers, aiForced >>

\* ---------------------------------------------------------------------
\* useAIBallsStore: pure helpers
\* ---------------------------------------------------------------------
RECURSIVE SumCounts(_)
SumCounts(balls) ==
  IF balls = << >> THEN 0
  ELSE Head(balls).powerUpsCollected + SumCounts(Tail(balls))

getTotalPowerupsCollected(p, balls) == p + SumCounts(balls)

RECURSIVE MaxOver(_, _)
MaxOver(balls, max) ==
  IF balls = << >> THEN max
  ELSE MaxOver(Tail(balls),
               IF Head(balls).powerUpsCollected > max
               THEN Head(balls).powerUpsCollected ELSE max)

\* variant: the maximum over the AI balls only
getMaxAmongAI(p, balls) == MaxOver(balls, 0)

getMaxPowerupsCollected(p, balls) == MaxOver(balls, p)

\* variant: the first timestamp instead of the count-th
firstTimestampOf(count, ts) == IF Len(ts) >= 1 THEN ts[1] ELSE 0

\* timestamps[count - 1] || 0
lastTimestampOf(count, ts) ==
  IF count >= 1 /\ count <= Len(ts) THEN ts[count] ELSE 0

RECURSIVE FirstPrimary(_)
FirstPrimary(balls) ==
  IF balls = << >> THEN Null
  ELSE IF Head(balls).powerUpsCollected >= PRIMARY_WIN_COUNT THEN Head(balls).id
  ELSE FirstPrimary(Tail(balls))

RECURSIVE TopAI(_, _)
TopAI(balls, max) ==
  IF balls = << >> THEN << >>
  ELSE LET b == Head(balls) IN
       (IF b.powerUpsCollected = max
        THEN << [id |-> b.id, isPlayer |-> FALSE, count |-> max,
                 lastTimestamp |-> lastTimestampOf(b.powerUpsCollected, b.collectionTimestamps)] >>
        ELSE << >>) \o TopAI(Tail(balls), max)

topCollectorsOf(p, pts, balls, max) ==
  (IF p = max
   THEN << [id |-> 0, isPlayer |-> TRUE, count |-> max,
            lastTimestamp |-> lastTimestampOf(p, pts)] >>
   ELSE << >>) \o TopAI(balls, max)

\* Array.prototype.sort((a, b) => a.lastTimestamp - b.lastTimestamp): stable, ascending
RECURSIVE InsertSorted(_, _)
InsertSorted(x, s) ==
  IF s = << >> THEN << x >>
  ELSE IF x.lastTimestamp < Head(s).lastTimestamp THEN << x >> \o s
  ELSE << Head(s) >> \o InsertSorted(x, Tail(s))

RECURSIVE SortByTimestamp(_)
SortByTimestamp(s) ==
  IF s = << >> THEN << >>
  ELSE InsertSorted(s[Len(s)], SortByTimestamp(SubSeq(s, 1, Len(s) - 1)))

NoResult == [found |-> FALSE, id |-> Null, isPlayer |-> FALSE, reason |-> "none",
             powerupsCount |-> 0, playerWasInTie |-> FALSE]

Result(id, isPlayer, reason, n, tie) ==
  [found |-> TRUE, id |-> id, isPlayer |-> isPlayer, reason |-> reason,
   powerupsCount |-> n, playerWasInTie |-> tie]

getWinnerBySecondaryCondition(p, pts, balls) ==
  IF p >= PRIMARY_WIN_COUNT THEN Result(0, TRUE, "primary", p, FALSE)
  ELSE IF FirstPrimary(balls) # Null
  THEN LET w == FirstPrimary(balls)
           b == CHOOSE x \in { balls[i] : i \in 1..Len(balls) } : x.id = w
       IN Result(w, FALSE, "primary", b.powerUpsCollected, FALSE)
  ELSE LET maxPowerups == getMaxPowerupsCollected(p, balls) IN
       IF maxPowerups = 0 THEN NoResult
       ELSE LET topCollectors == topCollectorsOf(p, pts, balls, maxPowerups) IN
            IF Len(topCollectors) = 0 THEN NoResult
            ELSE IF Len(topCollectors) = 1
            THEN Result(topCollectors[1].id, topCollectors[1].isPlayer,
                        "most-powerups", maxPowerups, FALSE)
            ELSE LET sorted == SortByTimestamp(topCollectors)
                     playerWasInTie == \E i \in 1..Len(sorted) : sorted[i].isPlayer
                 IN Result(sorted[1].id, sorted[1].isPlayer, "tiebreaker",
                           maxPowerups, playerWasInTie)

\* ---------------------------------------------------------------------
\* useGame
\* ---------------------------------------------------------------------
startGameDirect(ph) == IF ph = "start_menu" THEN "playing" ELSE ph
startGame(ph) == IF ph = "start_menu" THEN "ready" ELSE ph

start(ph) == IF ph = "ready" THEN "playing" ELSE ph

restart(ph) == "ready"

endIgnored(ph) == ph
end(ph) == IF ph = "playing" THEN "ended" ELSE ph

showStartMenu(ph) == "start_menu"

\* ---------------------------------------------------------------------
\* usePhysicsClock
\* ---------------------------------------------------------------------
\* times are counted in ticks of 1/120 s
TicksPerSecond == 120

ClockInit == [isPaused |-> FALSE, isFirstFrameAfterResume |-> FALSE]

setPaused(c, paused) ==
  IF paused # c.isPaused
  THEN IF paused
       THEN [c EXCEPT !.isPaused = TRUE]
       ELSE [isPaused |-> FALSE, isFirstFrameAfterResume |-> TRUE]
  ELSE c

reset(c) == [isPaused |-> FALSE, isFirstFrameAfterResume |-> FALSE]

\* usePhysicsClock with its timestamps (ticks of 1/120 s)
MAX_DELTA == TicksPerSecond \div 30
safeMinimalDelta == TicksPerSecond \div 120

PhysicsClockInit ==
  [lastTimestamp |-> 0, isPaused |-> FALSE, accumulatedTime |-> 0,
   pauseStartTime |-> Null, isFirstFrameAfterResume |-> FALSE]

\* a resume that does not mark the first frame
setPausedUnmarked(c, paused, currentTime) ==
  IF paused # c.isPaused
  THEN IF paused
       THEN [c EXCEPT !.isPaused = TRUE, !.pauseStartTime = currentTime]
       ELSE [c EXCEPT !.isPaused = FALSE, !.lastTimestamp = currentTime,
                      !.pauseStartTime = Null]
  ELSE c

\* setPaused(paused), performance.now() reading currentTime
setPausedAt(c, paused, currentTime) ==
  IF paused # c.isPaused
  THEN IF paused
       THEN [c EXCEPT !.isPaused = TRUE, !.pauseStartTime = currentTime]
       ELSE [c EXCEPT !.isPaused = FALSE, !.lastTimestamp = currentTime,
                      !.isFirstFrameAfterResume = TRUE, !.pauseStartTime = Null]
  ELSE c

\* reset(), performance.now() reading currentTime
resetAt(c, currentTime) ==
  [lastTimestamp |-> currentTime, isPaused |-> FALSE, accumulatedTime |-> 0,
   pauseStartTime |-> Null, isFirstFrameAfterResume |-> FALSE]

\* a paused tick that records the time it was called with
pausedTickRecording(c, currentTime) ==
  [clock |-> [c EXCEPT !.lastTimestamp = currentTime], delta |-> 0]

\* if (state.isPaused) return 0
pausedTick(c, currentTime) == [clock |-> c, delta |-> 0]

\* a delta that is never capped
capDeltaNever(delta) == delta

\* if (delta > MAX_DELTA) delta = MAX_DELTA
capDelta(delta) == IF delta > MAX_DELTA THEN MAX_DELTA ELSE delta

\* tick(currentTime): the new clock and the returned delta
tick(c, currentTime) ==
  IF c.isPaused THEN pausedTick(c, currentTime)
  ELSE IF c.isFirstFrameAfterResume
    THEN [clock |-> [c EXCEPT !.isFirstFrameAfterResume = FALSE,
                              !.lastTimestamp = currentTime],
          delta |-> safeMinimalDelta]
    ELSE [clock |-> [c EXCEPT !.lastTimestamp = currentTime],
          delta |-> capDelta(currentTime - c.lastTimestamp)]

\* tick has not been called yet (a returned delta can be -1 tick, so Null is not used)
NoDelta == 0 - 1000

\* the clock as created
ClockIdle ==
  /\ clockState = PhysicsClockInit
  /\ wallClock = 0
  /\ tickReturned = NoDelta
  /\ lastTickArg = Null
  /\ clockCalls = << >>

\* ---------------------------------------------------------------------
\* The stores the GameManager sequences, as one record g:
\*   phase, sel (hasSelectedLevel), paused, input, moving, locked, clock
\* ---------------------------------------------------------------------
G == [phase |-> phase, sel |-> hasSelectedLevel, paused |-> isPaused,
      input |-> isInputEnabled, moving |-> hasPlayerStartedMoving,
      locked |-> isLocked, clock |-> physicsClock]

SetG(g) ==
  /\ phase' = g.phase
  /\ hasSelectedLevel' = g.sel
  /\ isPaused' = g.paused
  /\ isInputEnabled' = g.input
  /\ hasPlayerStartedMoving' = g.moving
  /\ isLocked' = g.locked
  /\ physicsClock' = g.clock

\* useControls
enableInput(g) == [g EXCEPT !.input = TRUE]

disableInput(g) == [g EXCEPT !.input = FALSE]

resetPlayerMovementFlag(g) == [g EXCEPT !.moving = FALSE]

\* setMovementDirection(x, z) with (x, z) # (0, 0)
setMovementDirection(g) ==
  IF ~g.input THEN g ELSE [g EXCEPT !.moving = TRUE]

\* usePauseStore
togglePause(g) == [g EXCEPT !.paused = ~g.paused]

\* GameManager
resetPointerLockState(g) == [g EXCEPT !.locked = FALSE]

resetControlsState(g) ==
  disableInput(IF g.moving THEN resetPlayerMovementFlag(g) ELSE g)

resetPhysicsClock(g) == [g EXCEPT !.clock = reset(g.clock)]

resetDifficultySelection(g) == [g EXCEPT !.sel = FALSE]

pauseGame(g) ==
  IF g.paused THEN g
  ELSE resetPointerLockState(
         [disableInput([g EXCEPT !.paused = TRUE]) EXCEPT !.clock = setPaused(g.clock, TRUE)])

resumeGame(g) ==
  IF ~g.paused THEN g
  ELSE LET g1 == [g EXCEPT !.paused = FALSE, !.clock = setPaused(g.clock, FALSE)]
       IN IF g1.phase = "playing" /\ g1.sel THEN enableInput(g1) ELSE g1

\* GameScene: effect on [phase, hasSelectedLevel]; runs on mount and when either changed
GameSceneInputEffect(g0, g1) ==
  IF g1.phase = "start_menu" THEN g1
  ELSE IF g0.phase = "start_menu" \/ g0.phase # g1.phase \/ g0.sel # g1.sel
  THEN IF g1.phase = "playing" /\ g1.sel THEN enableInput(g1) ELSE disableInput(g1)
  ELSE g1

\* CameraControls: effect on [phase]; leaves pointer lock when the round has ended
CameraControlsEndEffect(g0, g1) ==
  IF g1.phase = "ended" /\ g0.phase # g1.phase /\ g1.locked
  THEN [g1 EXCEPT !.locked = FALSE] ELSE g1

\* the effects that follow a handler which took the stores from g0 to g1
Settle(g0, g1) == CameraControlsEndEffect(g0, GameSceneInputEffect(g0, g1))

\* ---------------------------------------------------------------------
\* useWinStore
\* ---------------------------------------------------------------------
NoWin == [isWinner |-> FALSE, winnerId |-> Null, winnerIsPlayer |-> FALSE,
          powerupsCount |-> 0, winReason |-> "none", playerWasInTie |-> FALSE]

setWinner(id, isPlayer, n, reason, tie) ==
  [isWinner |-> TRUE, winnerId |-> id, winnerIsPlayer |-> isPlayer,
   powerupsCount |-> n, winReason |-> reason, playerWasInTie |-> tie]

resetWin == NoWin

\* ---------------------------------------------------------------------
\* useAIBallsStore / scale stores
\* ---------------------------------------------------------------------
BallsInit == [i \in AIIds |-> [id |-> i, powerUpsCollected |-> 0, collectionTimestamps |-> << >>]]

resetBallsCountsOnly(balls) == [i \in 1..Len(balls) |-> [balls[i] EXCEPT !.powerUpsCollected = 0]]
resetBalls(balls) ==
  [i \in 1..Len(balls) |-> [balls[i] EXCEPT !.powerUpsCollected = 0, !.collectionTimestamps = << >>]]

incrementPowerUps(balls, id, t) ==
  [i \in 1..Len(balls) |->
     IF balls[i].id = id
     THEN [balls[i] EXCEPT !.powerUpsCollected = @ + 1,
                           !.collectionTimestamps = Append(@, t)]
     ELSE balls[i]]

CountOf(balls, id) ==
  LET b == CHOOSE x \in { balls[i] : i \in 1..Len(balls) } : x.id = id
  IN b.powerUpsCollected

getScale(sc, id) == IF id \in DOMAIN sc THEN sc[id] ELSE 0

EmptyScales == [i \in {} |-> 0]

PowerUpInit == [active |-> TRUE, position |-> "center"]

\* ---------------------------------------------------------------------
\* PhysicsWorld: the fixed-step loop.  Time is counted in ticks of 1/120 s.
\* ---------------------------------------------------------------------
fixedTimeStep == TicksPerSecond \div 60
resumeDelta == TicksPerSecond \div 120
maxDeltaTime == TicksPerSecond \div 10
maxStepsPerFrame == 4

Min(a, b) == IF a < b THEN a ELSE b

\* the refs as created by useRef
StepperIdle ==
  /\ frameTime = 0
  /\ prevTimeRef = Null
  /\ accumulatorRef = 0
  /\ justResumedRef = FALSE
  /\ wasPausedRef = FALSE
  /\ stepsTaken = 0
  /\ totalSteps = 0
  /\ elapsed = 0
  /\ discardedTime = 0
  /\ wholeDiscarded = 0

\* a loop that never reaches its cap
capNever(n) == FALSE

\* if (stepsTaken >= 4)
capReached(n) == n >= maxStepsPerFrame

RECURSIVE stepLoopCarrying(_, _)
RECURSIVE stepLoop(_, _)

\* the cap of the while loop with the remainder carried into the next frame
stepLoopCarrying(acc, n) ==
  IF acc >= fixedTimeStep
    THEN IF capReached(n + 1)
           THEN [acc |-> acc - fixedTimeStep, steps |-> n + 1, dropped |-> 0]
           ELSE stepLoopCarrying(acc - fixedTimeStep, n + 1)
    ELSE [acc |-> acc, steps |-> n, dropped |-> 0]

\* while (accumulator >= fixedTimeStep) { step; accumulator -= fixedTimeStep;
\*   stepsTaken++; if (stepsTaken >= 4) { accumulator = 0; break } }
stepLoop(acc, n) ==
  IF acc >= fixedTimeStep
    THEN IF capReached(n + 1)
           THEN [acc |-> 0, steps |-> n + 1, dropped |-> acc - fixedTimeStep]
           ELSE stepLoop(acc - fixedTimeStep, n + 1)
    ELSE [acc |-> acc, steps |-> n, dropped |-> 0]

\* the pause effect on resume without the re-initialisation of prevTimeRef
resumeTimingKeepingPrevTime(prev) == prev

\* the pause effect on resume: prevTimeRef.current = null
resumeTiming(prev) == Null

\* ---------------------------------------------------------------------
\* Ball and AIBall: the physics bodies.  A quantity 2^a * 3^b * 5^c is kept as its
\* exponents, so products are exact; a height is kept as the scale exponent k of
\* the radius 0.5 * 1.25^k it equals.
\* ---------------------------------------------------------------------
Q(a, b, c) == [two |-> a, three |-> b, five |-> c]

Times(x, y) == Q(x.two + y.two, x.three + y.three, x.five + y.five)

\* 1.25^k
ScaleFactor(k) == Q(0 - 2 * k, 0, k)

baseRadius == Q(0 - 1, 0, 0)

baseMass == Q(0, 0, 1)

\* radius = baseRadius * ballScale
radiusOf(k) == Times(baseRadius, ScaleFactor(k))

\* mass = baseMass * Math.pow(ballScale, 3)
massOf(k) == Times(baseMass, Times(ScaleFactor(k), Times(ScaleFactor(k), ScaleFactor(k))))

\* I = 2 * mass * radius * radius / 5
solidSphereInertia(mass, radius) ==
  Times(Q(1, 0, 0 - 1), Times(mass, Times(radius, radius)))

\* cannon-es Box.calculateInertia for the bounding box of a sphere (half extents
\* radius): 1/12 * mass * (2*radius*2*radius + 2*radius*2*radius)
boxInertia(mass, radius) ==
  Times(Q(0 - 2, 0 - 1, 0), Times(mass, Times(Q(3, 0, 0), Times(radius, radius))))

NoBody ==
  [present |-> FALSE, radius |-> Q(0, 0, 0), mass |-> Q(0, 0, 0), inertia |-> Q(0, 0, 0),
   position |-> [x |-> 0, y |-> 0], velocity |-> 0, angularVelocity |-> 0]

\* body.updateMassProperties(): cannon-es recomputes body.inertia from the bounding
\* box of the shape
updateMassProperties(body) ==
  [body EXCEPT !.inertia = boxInertia(body.mass, body.radius)]

\* new CANNON.Body({mass, position, shape: new CANNON.Sphere(radius)});
\* body.inertia.set(I, I, I); body.updateMassProperties(); velocities restored
createPhysicsBody(k, position, velocity, angularVelocity) ==
  updateMassProperties(
    [present |-> TRUE, radius |-> radiusOf(k), mass |-> massOf(k),
     inertia |-> solidSphereInertia(massOf(k), radiusOf(k)),
     position |-> position, velocity |-> velocity, angularVelocity |-> angularVelocity])

StartX == 0

\* createPlayerBall / createAIBall: at the start position, at rest
createBall(k) == createPhysicsBody(k, [x |-> StartX, y |-> k], 0, 0)

\* Ball's scale-change effect: a new body at the old position, lifted to the new
\* radius when it is lower, with the old velocities
playerScaleEffect(old, k) ==
  LET b == createPhysicsBody(k, old.position, old.velocity, old.angularVelocity)
  IN [b EXCEPT !.position.y = IF old.position.y < k THEN k ELSE @]

\* AIBall's scale-change effect: a new body with the old position and velocities,
\* then applyImpulse of strength 2..3 in a random direction
aiScaleEffect(old, k, kicked) ==
  LET b == createPhysicsBody(k, old.position, old.velocity, old.angularVelocity)
  IN [b EXCEPT !.velocity = kicked]

BodiesIdle == bodies = [e \in Entities |-> NoBody]

\* ---------------------------------------------------------------------
\* SpeedBoosterLogic and useSpeedBooster
\* ---------------------------------------------------------------------
BoosterInventory == 10

\* linearDamping: 0.4
baseDamping == Q(1, 0, 0 - 1)

\* playerBody.linearDamping *= 0.5
halved(x) == Times(x, Q(0 - 1, 0, 0))

\* playerBody.mass *= 0.9
lightened(x) == Times(x, Q(0 - 1, 2, 0 - 1))

\* playerBody.mass /= 0.9
unlightened(x) == Times(x, Q(1, 0 - 2, 1))

\* the player body as Ball creates it for scale exponent k
freshPlayerBody(k) == [mass |-> massOf(k), linearDamping |-> baseDamping]

BoosterInit == [isActive |-> FALSE, hasBeenUsed |-> FALSE, boosterCount |-> BoosterInventory]

BoosterRefsInit ==
  [isActiveRef |-> FALSE, propertiesChangedRef |-> FALSE,
   originalDampingRef |-> [set |-> FALSE, value |-> Q(0, 0, 0)]]

\* activateBooster
activateBooster(b) ==
  IF b.boosterCount > 0 /\ ~b.isActive /\ ~b.hasBeenUsed
  THEN [isActive |-> TRUE, hasBeenUsed |-> TRUE, boosterCount |-> b.boosterCount - 1]
  ELSE b

\* resetBooster
resetBooster(b) == [b EXCEPT !.isActive = FALSE, !.hasBeenUsed = FALSE]

\* adjustPlayerPhysicsForDash, on the pair [refs, body]
adjustPlayerPhysicsForDash(rb) ==
  IF rb.refs.propertiesChangedRef THEN rb
  ELSE [refs |-> [rb.refs EXCEPT !.originalDampingRef =
                                    [set |-> TRUE, value |-> rb.body.linearDamping],
                                 !.propertiesChangedRef = TRUE],
        body |-> [mass |-> lightened(rb.body.mass),
                  linearDamping |-> halved(rb.body.linearDamping)]]

\* restorePlayerPhysics, on the pair [refs, body]
restorePlayerPhysics(rb) ==
  IF ~rb.refs.propertiesChangedRef THEN rb
  ELSE [refs |-> [rb.refs EXCEPT !.propertiesChangedRef = FALSE],
        body |-> [mass |-> unlightened(rb.body.mass),
                  linearDamping |-> IF rb.refs.originalDampingRef.set
                                    THEN rb.refs.originalDampingRef.value
                                    ELSE rb.body.linearDamping]]

\* the effect on [isActive, playerBody]
boosterActiveEffect(isActive, rb) ==
  IF isActive # rb.refs.isActiveRef
  THEN LET r1 == [rb EXCEPT !.refs.isActiveRef = isActive]
           r2 == IF isActive THEN adjustPlayerPhysicsForDash(r1) ELSE r1
       IN IF ~isActive /\ r2.refs.propertiesChangedRef THEN restorePlayerPhysics(r2) ELSE r2
  ELSE rb

\* the effect on [gamePhase] outside the playing phase, and the resetSpeedBooster
\* listener: the refs are cleared first, restorePlayerPhysics is called after
boosterResetEffect(rb) ==
  restorePlayerPhysics([rb EXCEPT !.refs.propertiesChangedRef = FALSE,
                                  !.refs.originalDampingRef = BoosterRefsInit.originalDampingRef])

BoostIdle ==
  /\ booster = BoosterInit
  /\ boosterRefs = BoosterRefsInit
  /\ playerBodyProps = freshPlayerBody(0)

\* ---------------------------------------------------------------------
\* Initial state: the stores as created, the start menu shown
\* ---------------------------------------------------------------------
Init ==
  /\ phase = "start_menu"
  /\ hasSelectedLevel = FALSE
  /\ isPaused = FALSE
  /\ isInputEnabled = FALSE
  /\ hasPlayerStartedMoving = FALSE
  /\ isLocked = FALSE
  /\ physicsClock = ClockInit
  /\ powerUpState = PowerUpInit
  /\ powerUpsCollected = 0
  /\ isCollecting = FALSE
  /\ isCollectingRef = FALSE
  /\ respawnTimeout = FALSE
  /\ inRange = {}
  /\ credited = 0
  /\ playerPowerUpsCollected = 0
  /\ playerCollectionTimestamps = << >>
  /\ aiBalls = BallsInit
  /\ scale = 0
  /\ isGrowing = FALSE
  /\ scales = EmptyScales
  /\ aiIsGrowing = {}
  /\ aiGrowTimers = [i \in AIIds |-> 0]
  /\ win = NoWin
  /\ aiForced = FALSE
  /\ now = 0
  /\ StepperIdle
  /\ ClockIdle
  /\ BodiesIdle
  /\ BoostIdle

\* ---------------------------------------------------------------------
\* PowerUp component
\* ---------------------------------------------------------------------
\* variant: no render guard at the cap
meshRefUncapped == powerUpState.active

\* the group is rendered (meshRef.current is set) unless the render guard returned null
meshRefAttached == powerUpState.active /\ powerUpsCollected < MAX_POWER_UPS

\* variant: the frame callback without its guard
CollectableUnlocked == phase # "start_menu"

\* the guard at the top of PowerUp's frame callback
Collectable ==
  /\ phase # "start_menu"
  /\ meshRefAttached
  /\ powerUpState.active
  /\ ~isCollecting
  /\ ~isCollectingRef

\* player first, then the AI balls in array order
RECURSIVE FirstInRange(_, _)
FirstInRange(balls, S) ==
  IF balls = << >> THEN Null
  ELSE IF Head(balls).id \in S THEN Head(balls).id
  ELSE FirstInRange(Tail(balls), S)

Collector(S) == IF 0 \in S THEN 0 ELSE FirstInRange(aiBalls, S)

\* Date.now(): successive collections of a round are separated by the 2000 ms
\* respawn timer, so each reading is later than the previous one (up to the cap)
DateNow == { IF now < MaxNow THEN now + 1 ELSE MaxNow }

\* variant: no resolution at the cap
SecondaryWinSkipped(collected, p, pts, balls, w, ph) == [win |-> w, phase |-> ph]

\* the effect on [powerUpsCollected]: secondary resolution once the cap is reached
SecondaryWinEffect(collected, p, pts, balls, w, ph) ==
  IF collected >= MAX_POWER_UPS
  THEN LET winner == getWinnerBySecondaryCondition(p, pts, balls) IN
       IF winner.found
       THEN [win |-> setWinner(winner.id, winner.isPlayer, winner.powerupsCount,
                               winner.reason, winner.playerWasInTie),
             phase |-> end(ph)]
       ELSE [win |-> w, phase |-> ph]
  ELSE [win |-> w, phase |-> ph]

\* the effect on [active, powerUpsCollected]: arm the 2000 ms respawn timer
RespawnEffect(active, collected) == ~active /\ collected <= MAX_POWER_UPS

\* what handlePlayerCollection / handleAICollection do to the component itself
LockAndDeactivate ==
  /\ isCollecting' = TRUE
  /\ isCollectingRef' = TRUE
  /\ powerUpState' = [powerUpState EXCEPT !.active = FALSE]
  /\ powerUpsCollected' = powerUpsCollected + 1
  /\ respawnTimeout' = RespawnEffect(FALSE, powerUpsCollected + 1)
  /\ credited' = credited + 1
  /\ UNCHANGED inRange

handlePlayerCollection(t) ==
  LET newCount == playerPowerUpsCollected + 1
      newTimestamps == Append(playerCollectionTimestamps, t)
      isWinner == newCount >= PRIMARY_WIN_COUNT
      w1 == IF isWinner THEN setWinner(0, TRUE, newCount, "primary", FALSE) ELSE win
      ph1 == IF isWinner THEN end(phase) ELSE phase
      fx == SecondaryWinEffect(powerUpsCollected + 1, newCount, newTimestamps, aiBalls, w1, ph1)
  IN /\ LockAndDeactivate
     \* useBallStore.growBall
     /\ IF isGrowing
        THEN UNCHANGED << scale, isGrowing >>
        ELSE scale' = scale + 1 /\ isGrowing' = TRUE
     /\ UNCHANGED << scales, aiIsGrowing, aiGrowTimers, aiForced >>
     \* useAIBallsStore.incrementPlayerPowerUps
     /\ playerPowerUpsCollected' = newCount
     /\ playerCollectionTimestamps' = newTimestamps
     /\ UNCHANGED aiBalls
     /\ win' = fx.win
     /\ SetG(Settle(G, [G EXCEPT !.phase = fx.phase]))
     /\ now' = t
     /\ UNCHANGED auxVars

handleAICollection(ballId, t) ==
  LET newBalls == incrementPowerUps(aiBalls, ballId, t)
      currentCount == CountOf(newBalls, ballId)
      isWinner == currentCount >= PRIMARY_WIN_COUNT
      w1 == IF isWinner THEN setWinner(ballId, FALSE, currentCount, "primary", FALSE) ELSE win
      ph1 == IF isWinner THEN end(phase) ELSE phase
      fx == SecondaryWinEffect(powerUpsCollected + 1, playerPowerUpsCollected,
                               playerCollectionTimestamps, newBalls, w1, ph1)
  IN /\ ballId \in aiIsGrowing \/ aiGrowTimers[ballId] < MaxGrowTimers
     /\ LockAndDeactivate
     /\ aiBalls' = newBalls
     /\ UNCHANGED << playerPowerUpsCollected, playerCollectionTimestamps >>
     \* useAIBallScaleStore.growBall
     /\ IF ballId \in aiIsGrowing
        THEN UNCHANGED << scales, aiIsGrowing, aiGrowTimers, aiForced >>
        ELSE /\ aiIsGrowing' = aiIsGrowing \cup {ballId}
             \* the ball's scale-change effect swaps the body and applies the kick impulse
             /\ aiForced' = TRUE
             /\ scales' = [i \in (DOMAIN scales) \cup {ballId} |->
                             IF i = ballId THEN getScale(scales, ballId) + 1 ELSE scales[i]]
             /\ aiGrowTimers' = [aiGrowTimers EXCEPT ![ballId] = @ + 1]
     /\ UNCHANGED << scale, isGrowing >>
     /\ win' = fx.win
     /\ SetG(Settle(G, [G EXCEPT !.phase = fx.phase]))
     /\ now' = t
     /\ UNCHANGED auxVars

\* PowerUp's frame callback: proximity check of the player, then of the AI balls
PowerUpFrame ==
  /\ Collectable
  /\ inRange # {}
  /\ \E t \in DateNow :
       IF Collector(inRange) = 0
       THEN handlePlayerCollection(t)
       ELSE handleAICollection(Collector(inRange), t)

NoGrowTimerPending == ~isGrowing /\ \A i \in AIIds : aiGrowTimers[i] = 0

\* the 2000 ms respawn timer fires (after every 500 ms growth timer armed before it)
RespawnTimeout ==
  /\ respawnTimeout
  /\ NoGrowTimerPending
  /\ isCollecting' = FALSE
  /\ isCollectingRef' = FALSE
  /\ powerUpState' = [active |-> TRUE, position |-> "spawned"]
  /\ respawnTimeout' = RespawnEffect(TRUE, powerUpsCollected)
  /\ credited' = 0
  /\ IF powerUpsCollected < MAX_POWER_UPS
     THEN inRange' \in SUBSET Entities
     ELSE inRange' = {}
  /\ UNCHANGED << powerUpsCollected, gameVars, scoreVars, growVars, win, now, auxVars >>

\* variant: a reset that leaves the collection lock as it is
handleResetKeepingLock ==
  /\ powerUpsCollected' = 0
  /\ UNCHANGED << isCollecting, isCollectingRef >>
  /\ powerUpState' = PowerUpInit
  /\ respawnTimeout' = FALSE
  /\ credited' = 0

\* handleReset, and the cleanup of the respawn effect that follows it
handleReset ==
  /\ powerUpsCollected' = 0
  /\ isCollecting' = FALSE
  /\ isCollectingRef' = FALSE
  /\ powerUpState' = PowerUpInit
  /\ respawnTimeout' = FALSE
  /\ credited' = 0

\* the 500 ms timers of growBall
PlayerGrowTimeout ==
  /\ isGrowing
  /\ isGrowing' = FALSE
  /\ UNCHANGED << gameVars, powerUpVars, inRange, scoreVars, scale, scales,
                  aiIsGrowing, aiGrowTimers, aiForced, win, now, auxVars >>

AIGrowTimeout(id) ==
  /\ aiGrowTimers[id] > 0
  /\ aiGrowTimers' = [aiGrowTimers EXCEPT ![id] = @ - 1]
  /\ aiIsGrowing' = aiIsGrowing \ {id}
  /\ UNCHANGED << gameVars, powerUpVars, inRange, scoreVars, scale, isGrowing,
                  scales, aiForced, win, now, auxVars >>

\* PhysicsWorld's frame callback: world.step moves the balls once they are in motion
\* (the kick of a scale change alone displaces a ball by about one unit, far less
\* than the 24 units between a start position and the power-up at the centre)
\* (a ball needs well over 500 ms from its start position to the power-up at the
\* centre, 22 units away, so a growth timer armed before a reset has fired by then)
PhysicsWorldFrame ==
  /\ phase # "start_menu"
  /\ ~isPaused
  /\ hasPlayerStartedMoving
  /\ meshRefAttached
  /\ powerUpState.position = "center" => NoGrowTimerPending
  /\ inRange' \in SUBSET Entities
  /\ inRange' # inRange
  /\ UNCHANGED << gameVars, powerUpVars, scoreVars, growVars, win, now, auxVars >>

\* AIBall's frame callback: the wake-up force on a static body (applied whether
\* or not the game is paused) or the steering force, both gated on the player's
\* movement flag
AIBallFrame ==
  /\ phase # "start_menu"
  /\ hasPlayerStartedMoving
  /\ ~aiForced
  /\ aiForced' = TRUE
  /\ UNCHANGED << gameVars, powerUpVars, inRange, scoreVars, scale, isGrowing, scales,
                  aiIsGrowing, aiGrowTimers, win, now, auxVars >>

\* Controls' frame callback with a movement key held
ControlsFrame ==
  /\ phase # "start_menu"
  /\ isInputEnabled
  /\ ~hasPlayerStartedMoving
  /\ SetG(setMovementDirection(G))
  /\ UNCHANGED << powerUpVars, inRange, scoreVars, growVars, win, now, auxVars >>

\* ---------------------------------------------------------------------
\* GameManager: round resets
\* ---------------------------------------------------------------------
\* variant: a reset that keeps the player's scale
resetBallStateKeepingScale == UNCHANGED << scale, isGrowing >>

\* resetBallState: setScale(1.0)
resetBallState == scale' = 0 /\ UNCHANGED isGrowing

resetAIBallState ==
  /\ aiBalls' = resetBalls(aiBalls)
  /\ playerPowerUpsCollected' = 0
  /\ playerCollectionTimestamps' = << >>
  /\ scales' = EmptyScales
  /\ aiIsGrowing' = {}
  /\ UNCHANGED aiGrowTimers

resetBallPositions == inRange' = {}

resetPowerups == handleReset

resetGameState(g) == [g EXCEPT !.phase = restart(g.phase)]

\* AIBall's scale-change effect after resetScales: every mounted ball whose scale
\* changes back to 1.0 gets its body swapped and the kick impulse
ScaleChangeKick(sc) == \E id \in AIIds : getScale(sc, id) # 0

ResetRound ==
  /\ resetBallState
  /\ resetAIBallState
  /\ resetBallPositions
  /\ resetPowerups
  /\ win' = resetWin
  /\ now' = 0
  /\ UNCHANGED auxVars

restartGame ==
  LET g1 == resetGameState(resetPointerLockState(G))
      g2 == resetDifficultySelection(resetPhysicsClock(resetControlsState(g1)))
  IN /\ ResetRound
     /\ aiForced' = ScaleChangeKick(scales)
     /\ SetG(Settle(G, resumeGame(g2)))

restartCurrentGame ==
  LET g1 == resetPhysicsClock(resetControlsState(resetPointerLockState(G)))
      g2 == IF g1.phase # "playing" THEN [g1 EXCEPT !.phase = start(g1.phase)] ELSE g1
  IN /\ ResetRound
     /\ aiForced' = ScaleChangeKick(scales)
     /\ SetG(Settle(G, resumeGame(g2)))

returnToMainMenu ==
  LET g1 == resetDifficultySelection(resetControlsState(resetPointerLockState(G)))
      g2 == [g1 EXCEPT !.paused = FALSE]
  IN /\ ResetRound
     /\ aiForced' = FALSE
     /\ SetG(Settle(G, [g2 EXCEPT !.phase = showStartMenu(g2.phase)]))

\* ---------------------------------------------------------------------
\* User interface
\* ---------------------------------------------------------------------
Mounted == phase # "start_menu"
PauseMenuShown == Mounted /\ isPaused
WinModalShown == Mounted /\ win.isWinner /\ win.winReason # "none"
KeepRound == UNCHANGED << powerUpVars, inRange, scoreVars, growVars, win, now, auxVars >>

\* StartMenu: handleStartClick
handleStartClick ==
  /\ phase = "start_menu"
  /\ SetG(Settle(G, [G EXCEPT !.phase = startGame(G.phase)]))
  /\ KeepRound

\* LevelSelect: handleSelectLevel
handleSelectLevel ==
  /\ Mounted
  /\ ~hasSelectedLevel
  /\ SetG(Settle(G, [G EXCEPT !.sel = TRUE, !.phase = start(G.phase)]))
  /\ KeepRound

\* PauseButton: click
PauseButtonClick ==
  /\ Mounted
  /\ phase = "playing"
  /\ hasSelectedLevel
  /\ ~isPaused
  /\ SetG(Settle(G, pauseGame(G)))
  /\ KeepRound

\* App: handleKeyDown with the P key
KeyP ==
  /\ phase = "playing"
  /\ hasSelectedLevel
  /\ SetG(Settle(G, togglePause(G)))
  /\ KeepRound

\* App: handleKeyDown with Escape; with the pointer locked the browser only unlocks
KeyEscape ==
  /\ IF isLocked
     THEN SetG([G EXCEPT !.locked = FALSE])
     ELSE /\ phase = "playing"
          /\ hasSelectedLevel
          /\ SetG(Settle(G, togglePause(G)))
  /\ KeepRound

\* CameraControls: click on the canvas requests the pointer lock
CanvasClick ==
  /\ Mounted
  /\ phase = "playing"
  /\ isInputEnabled
  /\ ~isLocked
  /\ ~PauseMenuShown
  /\ SetG([G EXCEPT !.locked = TRUE])
  /\ KeepRound

\* PauseMenu buttons
ResumeClick ==
  /\ PauseMenuShown
  /\ SetG(Settle(G, resumeGame(G)))
  /\ KeepRound

RestartClick ==
  /\ PauseMenuShown
  /\ restartCurrentGame

\* PauseMenu and WinModal: main menu button
MainMenuClick ==
  /\ PauseMenuShown \/ WinModalShown
  /\ returnToMainMenu

\* WinModal: play again
PlayAgainClick ==
  /\ WinModalShown
  /\ restartGame

Next ==
  \/ handleStartClick
  \/ handleSelectLevel
  \/ PauseButtonClick
  \/ KeyP
  \/ KeyEscape
  \/ CanvasClick
  \/ ResumeClick
  \/ RestartClick
  \/ MainMenuClick
  \/ PlayAgainClick
  \/ ControlsFrame
  \/ AIBallFrame
  \/ PhysicsWorldFrame
  \/ PowerUpFrame
  \/ RespawnTimeout
  \/ PlayerGrowTimeout
  \/ \E id \in AIIds : AIGrowTimeout(id)

Spec == Init /\ [][Next]_vars

\* ---------------------------------------------------------------------
\* Resolver specification: getWinnerBySecondaryCondition over bounded score states
\* ---------------------------------------------------------------------
NondecreasingLists(n) ==
  { s \in [1..n -> 1..MaxTs] : \A i \in 1..n : \A j \in i..n : s[i] <= s[j] }

ScoreStates ==
  UNION { { [count |-> c, timestamps |-> s] : s \in NondecreasingLists(c) } :
          c \in 0..MaxResolverCount }

InitResolver ==
  /\ phase = "playing"
  /\ hasSelectedLevel = TRUE
  /\ isPaused = FALSE
  /\ isInputEnabled = TRUE
  /\ hasPlayerStartedMoving = TRUE
  /\ isLocked = FALSE
  /\ physicsClock = ClockInit
  /\ powerUpState = [active |-> FALSE, position |-> "spawned"]
  /\ isCollecting = TRUE
  /\ isCollectingRef = TRUE
  /\ respawnTimeout = FALSE
  /\ inRange = {}
  /\ credited = 1
  /\ scale = 0
  /\ isGrowing = FALSE
  /\ scales = EmptyScales
  /\ aiIsGrowing = {}
  /\ aiGrowTimers = [i \in AIIds |-> 0]
  /\ win = NoWin
  /\ aiForced = FALSE
  /\ now = 0
  /\ StepperIdle
  /\ ClockIdle
  /\ BodiesIdle
  /\ BoostIdle
  /\ \E f \in [Entities -> ScoreStates] :
       /\ playerPowerUpsCollected = f[0].count
       /\ playerCollectionTimestamps = f[0].timestamps
       /\ aiBalls = [i \in AIIds |-> [id |-> i, powerUpsCollected |-> f[i].count,
                                      collectionTimestamps |-> f[i].timestamps]]
       /\ powerUpsCollected = getTotalPowerupsCollected(f[0].count, aiBalls)

\* the resolver applied to the score state, its result recorded in the win store
ApplyResolver ==
  /\ ~win.isWinner
  /\ LET winner == getWinnerBySecondaryCondition(playerPowerUpsCollected,
                                                 playerCollectionTimestamps, aiBalls)
     IN /\ winner.found
        /\ win' = setWinner(winner.id, winner.isPlayer, winner.powerupsCount,
                            winner.reason, winner.playerWasInTie)
  /\ SetG(Settle(G, [G EXCEPT !.phase = end(G.phase)]))
  /\ UNCHANGED << powerUpVars, inRange, scoreVars, growVars, now, auxVars >>

NextResolver == ApplyResolver

SpecResolver == InitResolver /\ [][NextResolver]_vars

\* ---------------------------------------------------------------------
\* The stepping loop on its own: a mounted PhysicsWorld in a running round
\* ---------------------------------------------------------------------
RoundRunning ==
  /\ phase = "playing"
  /\ hasSelectedLevel = TRUE
  /\ isPaused = FALSE
  /\ isInputEnabled = TRUE
  /\ hasPlayerStartedMoving = TRUE
  /\ isLocked = TRUE
  /\ physicsClock = ClockInit
  /\ powerUpState = PowerUpInit
  /\ powerUpsCollected = 0
  /\ isCollecting = FALSE
  /\ isCollectingRef = FALSE
  /\ respawnTimeout = FALSE
  /\ inRange = {}
  /\ credited = 0
  /\ playerPowerUpsCollected = 0
  /\ playerCollectionTimestamps = << >>
  /\ aiBalls = BallsInit
  /\ scale = 0
  /\ isGrowing = FALSE
  /\ scales = EmptyScales
  /\ aiIsGrowing = {}
  /\ aiGrowTimers = [i \in AIIds |-> 0]
  /\ win = NoWin
  /\ aiForced = FALSE
  /\ now = 0

roundVars == << phase, hasSelectedLevel, isInputEnabled, hasPlayerStartedMoving, isLocked,
                physicsClock, powerUpVars, inRange, scoreVars, growVars, win, now,
                clockVars, bodies, boostVars >>

InitStepper == RoundRunning /\ StepperIdle /\ ClockIdle /\ BodiesIdle /\ BoostIdle

\* PhysicsWorld's useFrame callback, called with the clock advanced by d ticks
useFrameStep(d) ==
  /\ frameTime + d <= MaxTime
  /\ frameTime' = frameTime + d
  /\ IF isPaused
       THEN UNCHANGED << prevTimeRef, accumulatorRef, justResumedRef, stepsTaken,
                         totalSteps, elapsed, discardedTime, wholeDiscarded >>
     ELSE IF prevTimeRef = Null
       THEN /\ prevTimeRef' = frameTime'
            /\ stepsTaken' = 0
            /\ UNCHANGED << accumulatorRef, justResumedRef, totalSteps, elapsed,
                            discardedTime, wholeDiscarded >>
     ELSE LET deltaTime == IF justResumedRef THEN resumeDelta ELSE frameTime' - prevTimeRef
              clamped == Min(deltaTime, maxDeltaTime)
              r == stepLoop(accumulatorRef + clamped, 0)
              lost == (deltaTime - clamped) + r.dropped
          IN /\ justResumedRef' = FALSE
             /\ prevTimeRef' = frameTime'
             /\ accumulatorRef' = r.acc
             /\ stepsTaken' = r.steps
             /\ totalSteps' = totalSteps + r.steps
             /\ elapsed' = elapsed + d
             /\ discardedTime' = discardedTime + lost
             /\ wholeDiscarded' = wholeDiscarded + (lost \div fixedTimeStep)
  /\ UNCHANGED << isPaused, wasPausedRef, roundVars >>

PhysicsFrame == \E d \in 1..MaxDelta : useFrameStep(d)

\* usePauseStore.isPaused becomes true; the pause effect notes it
PhysicsPause ==
  /\ ~isPaused
  /\ isPaused' = TRUE
  /\ wasPausedRef' = TRUE
  /\ UNCHANGED << frameTime, prevTimeRef, accumulatorRef, justResumedRef, stepsTaken,
                  totalSteps, elapsed, discardedTime, wholeDiscarded, roundVars >>

\* usePauseStore.isPaused becomes false; the pause effect re-initialises the timing
PhysicsResume ==
  /\ isPaused
  /\ isPaused' = FALSE
  /\ IF wasPausedRef
       THEN /\ prevTimeRef' = resumeTiming(prevTimeRef)
            /\ accumulatorRef' = 0
            /\ justResumedRef' = TRUE
            /\ wasPausedRef' = FALSE
       ELSE UNCHANGED << prevTimeRef, accumulatorRef, justResumedRef, wasPausedRef >>
  /\ UNCHANGED << frameTime, stepsTaken, totalSteps, elapsed, discardedTime,
                  wholeDiscarded, roundVars >>

NextStepping == PhysicsFrame

SpecStepping == InitStepper /\ [][NextStepping]_vars

NextStepper ==
  \/ PhysicsFrame
  \/ PhysicsPause
  \/ PhysicsResume

SpecStepper == InitStepper /\ [][NextStepper]_vars

\* ---------------------------------------------------------------------
\* The physics clock on its own: calls of setPaused, reset and tick
\* ---------------------------------------------------------------------
stepperAndRoundVars == << phase, hasSelectedLevel, isPaused, isInputEnabled,
                          hasPlayerStartedMoving, isLocked, physicsClock, powerUpVars,
                          inRange, scoreVars, growVars, win, now, stepperVars,
                          bodies, boostVars >>

InitClock == RoundRunning /\ StepperIdle /\ ClockIdle /\ BodiesIdle /\ BoostIdle

\* the last MaxCalls calls
Recorded3(calls, c) ==
  IF Len(calls) < MaxCalls THEN Append(calls, c) ELSE Append(Tail(calls), c)

ClockSetPaused(paused) ==
  \E w \in wallClock..MaxWall :
    /\ wallClock' = w
    /\ clockState' = setPausedAt(clockState, paused, w)
    /\ clockCalls' = Recorded3(clockCalls, IF paused THEN "setPaused(true)"
                                                     ELSE "setPaused(false)")
    /\ UNCHANGED << tickReturned, lastTickArg, stepperAndRoundVars >>

ClockReset ==
  \E w \in wallClock..MaxWall :
    /\ wallClock' = w
    /\ clockState' = resetAt(clockState, w)
    /\ clockCalls' = Recorded3(clockCalls, "reset")
    /\ UNCHANGED << tickReturned, lastTickArg, stepperAndRoundVars >>

\* tick is called with a frame timestamp, taken at most one tick of 1/120 s before
\* the current reading of performance.now()
ClockTick ==
  \E w \in wallClock..MaxWall : \E t \in {w - 1, w} :
    /\ t >= 0
    /\ wallClock' = w
    /\ LET r == tick(clockState, t)
       IN /\ clockState' = r.clock
          /\ tickReturned' = r.delta
    /\ lastTickArg' = t
    /\ clockCalls' = Recorded3(clockCalls, "tick")
    /\ UNCHANGED stepperAndRoundVars

NextClock ==
  \/ \E paused \in BOOLEAN : ClockSetPaused(paused)
  \/ ClockReset
  \/ ClockTick

SpecClock == InitClock /\ [][NextClock]_vars

\* ---------------------------------------------------------------------
\* The bodies on their own: creation, growth, reset and motion
\* ---------------------------------------------------------------------
ScaleOf(e) == IF e = 0 THEN scale ELSE getScale(scales, e)

SetScaleOf(e, k) ==
  IF e = 0
    THEN scale' = k /\ UNCHANGED scales
    ELSE /\ scales' = [i \in DOMAIN scales \cup {e} |-> IF i = e THEN k ELSE scales[i]]
         /\ UNCHANGED scale

bodyRoundVars == << gameVars, powerUpVars, inRange, scoreVars, isGrowing, aiIsGrowing,
                    aiGrowTimers, aiForced, win, now, stepperVars, clockVars,
                    boostVars >>

InitBody == RoundRunning /\ StepperIdle /\ ClockIdle /\ BodiesIdle /\ BoostIdle

\* the creation timeout after mount
BodyMount(e) ==
  /\ ~bodies[e].present
  /\ bodies' = [bodies EXCEPT ![e] = createBall(ScaleOf(e))]
  /\ UNCHANGED << scale, scales, bodyRoundVars >>

\* a velocity other than v: an impulse of strength 2..3 never leaves it as it was
Kicked(v) == { w \in 0..MaxVel : w # v }

\* the entity's scale grows by one factor of 1.25 and its scale-change effect runs
BodyGrow(e) ==
  /\ bodies[e].present
  /\ ScaleOf(e) < MaxScale
  /\ SetScaleOf(e, ScaleOf(e) + 1)
  /\ IF e = 0
       THEN bodies' = [bodies EXCEPT ![e] = playerScaleEffect(@, ScaleOf(e) + 1)]
       ELSE \E w \in Kicked(bodies[e].velocity) :
              bodies' = [bodies EXCEPT ![e] = aiScaleEffect(@, ScaleOf(e) + 1, w)]
  /\ UNCHANGED bodyRoundVars

\* world.step: the ball moves, its velocities change, it rests on the ground
BodyWorldStep(e) ==
  /\ bodies[e].present
  /\ \E x \in 0..MaxPos, v \in 0..MaxVel :
       bodies' = [bodies EXCEPT ![e] = [@ EXCEPT !.position = [x |-> x, y |-> ScaleOf(e)],
                                                 !.velocity = v,
                                                 !.angularVelocity = v]]
  /\ UNCHANGED << scale, scales, bodyRoundVars >>

\* resetBallState, resetAIBallState, resetBallPositions: the listeners registered by
\* the last render of Ball (current radius and mass) and by the first render of
\* AIBall (scale 1.0) re-create the balls, then the scale-change effects run for
\* the scales that changed
BodyReset ==
  /\ \A e \in Entities : bodies[e].present
  /\ scale' = 0
  /\ scales' = EmptyScales
  /\ \E w \in Kicked(0) :
       bodies' = [e \in Entities |->
                    IF e = 0
                      THEN IF scale # 0 THEN playerScaleEffect(createBall(scale), 0)
                                        ELSE createBall(scale)
                      ELSE IF ScaleOf(e) # 0 THEN aiScaleEffect(createBall(0), 0, w)
                                             ELSE createBall(0)]
  /\ UNCHANGED bodyRoundVars

NextBody ==
  \/ \E e \in Entities : BodyMount(e)
  \/ \E e \in Entities : BodyGrow(e)
  \/ \E e \in Entities : BodyWorldStep(e)
  \/ BodyReset

SpecBody == InitBody /\ [][NextBody]_vars

\* ---------------------------------------------------------------------
\* The speed booster on its own: activation, expiry, growth of the player, end of
\* the round and the next round
\* ---------------------------------------------------------------------
boostRoundVars == << hasSelectedLevel, isPaused, isInputEnabled, hasPlayerStartedMoving,
                     isLocked, physicsClock, powerUpVars, inRange, scoreVars, isGrowing,
                     scales, aiIsGrowing, aiGrowTimers, aiForced, win, now, stepperVars,
                     clockVars, bodies >>

InitBoost == RoundRunning /\ StepperIdle /\ ClockIdle /\ BodiesIdle /\ BoostIdle

RB == [refs |-> boosterRefs, body |-> playerBodyProps]

SetRB(rb) ==
  /\ boosterRefs' = rb.refs
  /\ playerBodyProps' = rb.body

\* the booster button during play
BoostActivate ==
  /\ phase = "playing"
  /\ activateBooster(booster) # booster
  /\ booster' = activateBooster(booster)
  /\ SetRB(boosterActiveEffect(booster'.isActive, RB))
  /\ UNCHANGED << phase, scale, boostRoundVars >>

\* SpeedBoosterLogic's frame callback once the 1500 ms have passed
BoostExpire ==
  /\ phase = "playing"
  /\ booster.isActive
  /\ booster' = [booster EXCEPT !.isActive = FALSE]
  /\ SetRB(boosterActiveEffect(FALSE, RB))
  /\ UNCHANGED << phase, scale, boostRoundVars >>

\* the player collects a power-up: Ball's scale-change effect replaces the body;
\* the effect on [isActive, playerBody] runs with isActive as it was
BoostPlayerGrows ==
  /\ phase = "playing"
  /\ scale < MaxScale
  /\ scale' = scale + 1
  /\ SetRB(boosterActiveEffect(booster.isActive,
                               [refs |-> boosterRefs, body |-> freshPlayerBody(scale + 1)]))
  /\ UNCHANGED << phase, booster, boostRoundVars >>

\* a winner is declared
BoostRoundEnds ==
  /\ phase = "playing"
  /\ phase' = "ended"
  /\ booster' = resetBooster(booster)
  /\ SetRB(boosterActiveEffect(FALSE, boosterResetEffect(RB)))
  /\ UNCHANGED << scale, boostRoundVars >>

\* restartGame: resetSpeedBooster, the balls re-created at scale 1.0, level select
BoostPlayAgain ==
  /\ phase = "ended"
  /\ phase' = "ready"
  /\ scale' = 0
  /\ booster' = resetBooster(booster)
  /\ SetRB(boosterActiveEffect(FALSE,
             boosterResetEffect([refs |-> boosterRefs, body |-> freshPlayerBody(0)])))
  /\ UNCHANGED boostRoundVars

\* a level is chosen
BoostSelectLevel ==
  /\ phase = "ready"
  /\ phase' = start(phase)
  /\ UNCHANGED << scale, boostVars, boostRoundVars >>

NextBoost ==
  \/ BoostActivate
  \/ BoostExpire
  \/ BoostPlayerGrows
  \/ BoostRoundEnds
  \/ BoostPlayAgain
  \/ BoostSelectLevel

SpecBoost == InitBoost /\ [][NextBoost]_vars

\* ---------------------------------------------------------------------
\* Properties
\* ---------------------------------------------------------------------
Count(e) == IF e = 0 THEN playerPowerUpsCollected ELSE CountOf(aiBalls, e)
TotalCredited == getTotalPowerupsCollected(playerPowerUpsCollected, aiBalls)

CreditedOnlyTo(e) ==
  /\ Count(e)' = Count(e) + 1
  /\ \A o \in Entities \ {e} : Count(o)' = Count(o)

\* C1: during one activation of the power-up at most one entity is credited,
\* and a frame check that finds at least one entity in range credits exactly
\* one of them (the player if in range, otherwise the first AI ball in range).
C1_AtMostOneCollector ==
  /\ [](credited <= 1)
  /\ [][PowerUpFrame => /\ CreditedOnlyTo(Collector(inRange))
                        /\ Collector(inRange) \in inRange
                        /\ credited' = 1
                        /\ powerUpsCollected' = powerUpsCollected + 1]_vars

\* several entities, the player among them, were in range and one was credited
C1_Witness ==
  /\ credited = 1
  /\ ~powerUpState.active
  /\ inRange = Entities

\* C2: a collection that raises the collector's count to 5 while the phase is
\* playing records that collector as the winner with reason 'primary' and
\* ends the round in the same step.
C2_PrimaryWin ==
  [][\A e \in Entities :
       (PowerUpFrame /\ phase = "playing" /\ Count(e) = PRIMARY_WIN_COUNT - 1
          /\ Count(e)' = PRIMARY_WIN_COUNT)
       => /\ win'.isWinner
          /\ win'.winnerId = e
          /\ win'.winnerIsPlayer = (e = 0)
          /\ win'.winReason = "primary"
          /\ win'.powerupsCount = PRIMARY_WIN_COUNT
          /\ phase' = "ended"]_vars

\* an AI ball has just won the round with its fifth power-up
C2_Witness ==
  /\ phase = "ended"
  /\ win.winReason = "primary"
  /\ win.winnerId \in AIIds
  /\ Count(win.winnerId) = PRIMARY_WIN_COUNT
  /\ credited = 1

\* C3: the collected counter of the PowerUp component and the sum of all
\* entities' counts never exceed the cap of 12.
C3_TotalAtMostCap ==
  /\ powerUpsCollected <= MAX_POWER_UPS
  /\ TotalCredited <= MAX_POWER_UPS

\* the cap has been reached and the respawn timer has fired nevertheless
C3_Witness ==
  /\ powerUpsCollected = MAX_POWER_UPS
  /\ TotalCredited = MAX_POWER_UPS
  /\ powerUpState.active
  /\ phase # "start_menu"

\* C4: when the 12th power-up is collected while the phase is playing and no
\* entity has reached 5, the result of getWinnerBySecondaryCondition is
\* recorded in the win store and the phase becomes ended.
C4_SecondaryWinAtCap ==
  [][(PowerUpFrame /\ phase = "playing" /\ powerUpsCollected = MAX_POWER_UPS - 1
        /\ \A e \in Entities : Count(e)' < PRIMARY_WIN_COUNT)
     => LET winner == getWinnerBySecondaryCondition(playerPowerUpsCollected',
                        playerCollectionTimestamps', aiBalls')
        IN /\ winner.found
           /\ winner.reason \in {"most-powerups", "tiebreaker"}
           /\ win' = setWinner(winner.id, winner.isPlayer, winner.powerupsCount,
                               winner.reason, winner.playerWasInTie)
           /\ phase' = "ended"]_vars

\* the round ended on the 12th collection with nobody at 5
C4_Witness ==
  /\ phase = "ended"
  /\ powerUpsCollected = MAX_POWER_UPS
  /\ win.isWinner
  /\ win.winReason \in {"most-powerups", "tiebreaker"}
  /\ \A e \in Entities : Count(e) < PRIMARY_WIN_COUNT

Timestamps(e) ==
  IF e = 0 THEN playerCollectionTimestamps
  ELSE (CHOOSE x \in { aiBalls[i] : i \in 1..Len(aiBalls) } : x.id = e).collectionTimestamps

NoPrimary == \A e \in Entities : Count(e) < PRIMARY_WIN_COUNT
Resolved == getWinnerBySecondaryCondition(playerPowerUpsCollected,
                                          playerCollectionTimestamps, aiBalls)
Recorded(r) == setWinner(r.id, r.isPlayer, r.powerupsCount, r.reason, r.playerWasInTie)
UniqueMax(e) == Count(e) > 0 /\ \A o \in Entities \ {e} : Count(o) < Count(e)
Tied == { e \in Entities : \A o \in Entities : Count(o) <= Count(e) }

\* C5: in every score state where nobody has 5 or more and exactly one entity
\* holds the positive maximum, getWinnerBySecondaryCondition returns that
\* entity with reason 'most-powerups' and the maximum as powerupsCount, and
\* that is what the resolver step records.
C5_UniqueMaxWins ==
  \A e \in Entities :
    (NoPrimary /\ UniqueMax(e))
    => /\ Resolved.found
       /\ Resolved.id = e
       /\ Resolved.isPlayer = (e = 0)
       /\ Resolved.reason = "most-powerups"
       /\ Resolved.powerupsCount = Count(e)
       /\ win.isWinner => win = Recorded(Resolved)

\* an AI ball alone at the maximum has been recorded as the winner
C5_Witness ==
  /\ win.isWinner
  /\ win.winReason = "most-powerups"
  /\ win.winnerId \in AIIds
  /\ NoPrimary
  /\ UniqueMax(win.winnerId)
  /\ playerPowerUpsCollected > 0

\* C6: when two or more entities share the maximum count N, 1 <= N < 5, the
\* result is a tied entity whose N-th collection timestamp is the smallest
\* among the tied ones, with reason 'tiebreaker', and playerWasInTie is true
\* exactly when the player is one of the tied entities.
C6_TieBreakEarliest ==
  (NoPrimary /\ Cardinality(Tied) >= 2 /\ \A e \in Tied : Count(e) >= 1)
  => /\ Resolved.found
     /\ Resolved.id \in Tied
     /\ \A o \in Tied :
          Timestamps(Resolved.id)[Count(Resolved.id)] <= Timestamps(o)[Count(o)]
     /\ Resolved.isPlayer = (Resolved.id = 0)
     /\ Resolved.reason = "tiebreaker"
     /\ Resolved.powerupsCount = Count(Resolved.id)
     /\ Resolved.playerWasInTie = (0 \in Tied)
     /\ win.isWinner => win = Recorded(Resolved)

\* the player was tied at the maximum and lost the tie-break to an AI ball
\* that reached the count strictly earlier
C6_Witness ==
  /\ win.isWinner
  /\ win.winReason = "tiebreaker"
  /\ win.playerWasInTie
  /\ win.winnerId \in AIIds
  /\ 0 \in Tied
  /\ NoPrimary
  /\ Timestamps(win.winnerId)[Count(win.winnerId)] < Timestamps(0)[Count(0)]

Zeroed ==
  /\ playerPowerUpsCollected = 0
  /\ playerCollectionTimestamps = << >>
  /\ \A i \in 1..Len(aiBalls) :
       aiBalls[i].powerUpsCollected = 0 /\ aiBalls[i].collectionTimestamps = << >>
  /\ powerUpsCollected = 0
  /\ scale = 0
  /\ \A id \in AIIds : getScale(scales, id) = 0

FullReset == RestartClick \/ MainMenuClick \/ PlayAgainClick

\* C7: a full reset (restartGame, restartCurrentGame or returnToMainMenu)
\* leaves the player's count, every AI ball's count, every timestamp list and
\* the PowerUp component's collected counter at zero/empty and every
\* entity's scale at 1.0, whatever was collected before.
C7_ResetClearsScore == [][FullReset => Zeroed']_vars

\* a reset has just followed a collection by the player: the score is cleared
\* while the growth timer of that collection is still pending
C7_Witness ==
  /\ Zeroed
  /\ isGrowing
  /\ powerUpState = PowerUpInit
  /\ ~isCollectingRef

Phases == {"start_menu", "ready", "playing", "ended"}

\* C8: every change of the phase is start_menu to ready (start button),
\* ready to playing (level chosen), playing to ended (a collection that set a
\* winner), ended to ready or ended to playing (restart), or a return to
\* start_menu from the main-menu button; startGame, start and end leave the
\* phase unchanged when invoked in any other phase.
C8_PhaseTransitions ==
  [][/\ phase' # phase =>
          \/ phase = "start_menu" /\ phase' = "ready" /\ handleStartClick
          \/ phase = "ready" /\ phase' = "playing" /\ hasSelectedLevel'
          \/ phase = "playing" /\ phase' = "ended" /\ win'.isWinner /\ PowerUpFrame
          \/ phase = "ended" /\ phase' \in {"ready", "playing"}
                             /\ (PlayAgainClick \/ RestartClick)
          \/ phase' = "start_menu" /\ MainMenuClick
     /\ \A ph \in Phases :
          /\ ph # "start_menu" => startGame(ph) = ph
          /\ ph # "ready" => start(ph) = ph
          /\ ph # "playing" => end(ph) = ph
          /\ startGame("start_menu") = "ready"
          /\ start("ready") = "playing"
          /\ end("playing") = "ended"]_vars

\* a second round is being set up: the first one ended and 'play again' led
\* back to ready while the growth timer of the last collection is pending
C8_Witness ==
  /\ phase = "ready"
  /\ ~hasSelectedLevel
  /\ \E id \in AIIds : aiGrowTimers[id] > 0

\* C9: whenever the paused flag is true the phase is playing.
C9_PausedOnlyWhilePlaying == isPaused => phase = "playing"

\* C10: whenever the game is paused, player input is disabled, the physics
\* clock is paused and the pointer lock is released.
C10_PauseSuspendsEverything ==
  isPaused => /\ ~isInputEnabled
              /\ physicsClock.isPaused
              /\ ~isLocked

\* C11: after a restart or reset no AI ball receives a force, an impulse or a
\* velocity change until the player issues a new non-zero movement input.
C11_AIStillUntilPlayerMoves == aiForced => hasPlayerStartedMoving

\* C12 as stated: the steps executed equal floor(T / (1/60)) minus the whole
\* steps discarded at the frames that hit the 4-step cap.
C12_StepsFloorMinusWholeDiscarded ==
  totalSteps = (elapsed \div fixedTimeStep) - wholeDiscarded

\* C12, amended: the steps executed equal floor((T - D) / (1/60)), D being all the
\* time dropped at the frames that hit the cap, fractions of a step included.
C12_StepsFromKeptTime ==
  totalSteps = (elapsed - discardedTime) \div fixedTimeStep

C12_Witness ==
  /\ discardedTime % fixedTimeStep = 1
  /\ totalSteps > maxStepsPerFrame
  /\ elapsed \div fixedTimeStep > totalSteps + wholeDiscarded

\* C13: a frame executes at most 4 fixed steps, and after every frame the
\* accumulator holds less than one fixed step: a frame that reaches the cap leaves
\* nothing behind for a later frame.
C13_CapAndNoCarry ==
  /\ stepsTaken <= maxStepsPerFrame
  /\ accumulatorRef < fixedTimeStep
  /\ (stepsTaken = maxStepsPerFrame => accumulatorRef = 0)

C13_Witness ==
  /\ stepsTaken = maxStepsPerFrame
  /\ discardedTime >= fixedTimeStep
  /\ totalSteps > maxStepsPerFrame

\* C14: no fixed step is executed in a frame while the game is paused; a resume
\* re-initialises the timing, the first frame after it executes zero steps and only
\* records the time, and no frame puts more than its own delta into the accumulator,
\* so the time that elapsed during the pause never enters it.
C14_PauseTimeNeverStepped ==
  [][ /\ (isPaused => totalSteps' = totalSteps)
      /\ (isPaused /\ ~isPaused' => prevTimeRef' = Null /\ accumulatorRef' = 0)
      /\ (~isPaused /\ prevTimeRef = Null /\ frameTime' # frameTime =>
            /\ totalSteps' = totalSteps
            /\ accumulatorRef' = accumulatorRef
            /\ prevTimeRef' = frameTime')
      /\ accumulatorRef' + fixedTimeStep * (totalSteps' - totalSteps)
           <= accumulatorRef + (frameTime' - frameTime) ]_vars

C14_Witness ==
  /\ ~isPaused
  /\ justResumedRef
  /\ prevTimeRef = frameTime
  /\ accumulatorRef = 0
  /\ totalSteps > 0
  /\ frameTime > elapsed + maxDeltaTime

\* the calls recorded last are exactly those of suffix, in that order
EndsWith(calls, suffix) ==
  /\ Len(calls) >= Len(suffix)
  /\ SubSeq(calls, Len(calls) - Len(suffix) + 1, Len(calls)) = suffix

\* this step is a call of tick
TickCalled == clockCalls' = Recorded3(clockCalls, "tick")

\* C15: after setPaused(true) then setPaused(false) the next tick returns exactly
\* 1/120 s whatever time elapsed while paused, and the tick after that returns the
\* time since that first tick (within the 1/30 s cap).
C15_FirstTickAfterResume ==
  [][ /\ (EndsWith(clockCalls, << "setPaused(true)", "setPaused(false)" >>) /\ TickCalled
            => tickReturned' = safeMinimalDelta)
      /\ (EndsWith(clockCalls, << "setPaused(true)", "setPaused(false)", "tick" >>)
            /\ TickCalled
            => tickReturned' = Min(lastTickArg' - lastTickArg, MAX_DELTA)) ]_vars

C15_Witness ==
  /\ EndsWith(clockCalls, << "setPaused(true)", "setPaused(false)", "tick" >>)
  /\ tickReturned = safeMinimalDelta
  /\ lastTickArg > MAX_DELTA + safeMinimalDelta

\* C16: while the clock is paused every call of tick returns 0 and leaves
\* lastTimestamp, accumulatedTime, pauseStartTime and the first-frame flag unchanged.
C16_PausedTickIsInert ==
  [][ clockState.isPaused /\ TickCalled
        => tickReturned' = 0 /\ clockState' = clockState ]_vars

C16_Witness ==
  /\ clockState.isPaused
  /\ EndsWith(clockCalls, << "tick" >>)
  /\ tickReturned = 0
  /\ clockState.pauseStartTime # Null
  /\ lastTickArg > clockState.pauseStartTime
  /\ lastTickArg > clockState.lastTimestamp

\* C17: unpaused and outside the first frame after resume, tick returns the
\* difference between the current time and the last recorded timestamp when that is
\* at most 1/30 s and exactly 1/30 s otherwise; no call returns more than 1/30 s.
C17_DeltaCapped ==
  [][ TickCalled =>
        /\ tickReturned' <= MAX_DELTA
        /\ (~clockState.isPaused /\ ~clockState.isFirstFrameAfterResume =>
              LET difference == lastTickArg' - clockState.lastTimestamp
              IN tickReturned' = IF difference <= MAX_DELTA THEN difference
                                                            ELSE MAX_DELTA) ]_vars

C17_Witness ==
  /\ EndsWith(clockCalls, << "reset", "tick" >>)
  /\ tickReturned = MAX_DELTA
  /\ lastTickArg > MAX_DELTA
  /\ ~clockState.isPaused

\* C18: when an entity's scale grows, the replacement body has exactly the position,
\* linear velocity and angular velocity of the body it replaces.
C18_SwapKeepsKinematics ==
  [][ \A e \in Entities :
        bodies[e].present /\ ScaleOf(e)' > ScaleOf(e) =>
          /\ bodies'[e].position = bodies[e].position
          /\ bodies'[e].velocity = bodies[e].velocity
          /\ bodies'[e].angularVelocity = bodies[e].angularVelocity ]_vars

\* C19: every body of an entity with scale factor k has radius baseRadius*k, mass
\* baseMass*k^3 and inertia (2/5)*mass*radius^2.
C19_MassLaw ==
  \A e \in Entities :
    bodies[e].present =>
      /\ bodies[e].radius = radiusOf(ScaleOf(e))
      /\ bodies[e].mass = massOf(ScaleOf(e))
      /\ bodies[e].inertia = solidSphereInertia(bodies[e].mass, bodies[e].radius)

\* C20: from pause to resume the simulation state does not change: no power-up is
\* collected or respawned, no count, timestamp or scale changes, no winner is set
\* and no body is forced (the player's movement flag is raised by the very frame
\* callback that applies the force to the player body).
C20_PauseFreezesSimulation ==
  [][ isPaused /\ isPaused' =>
        UNCHANGED << powerUpState, powerUpsCollected, scoreVars, scale, scales, win,
                     aiForced, hasPlayerStartedMoving >> ]_vars

\* C21: once the round has ended, and until a reset clears the win state, the
\* power-up does not become active again and no further collection is credited.
C21_EndedRoundIsDepleted ==
  [][ phase = "ended" /\ phase' = "ended" /\ win.isWinner /\ win'.isWinner =>
        /\ (powerUpState'.active => powerUpState.active)
        /\ powerUpsCollected' = powerUpsCollected
        /\ UNCHANGED scoreVars ]_vars

\* C22: the collection lock (state and ref) is set exactly when the power-up is
\* inactive: a collection sets the lock and deactivates together, and the respawn
\* and the round reset release the lock and activate together.
C22_LockIffInactive ==
  /\ isCollecting <=> ~powerUpState.active
  /\ isCollectingRef <=> ~powerUpState.active

C22_Witness ==
  /\ isCollecting
  /\ isCollectingRef
  /\ ~powerUpState.active
  /\ respawnTimeout
  /\ powerUpsCollected > 1

\* a round reset: one of the buttons that run the GameManager's reset sequence
RoundResetStep == RestartClick \/ MainMenuClick \/ PlayAgainClick

\* C23: after a round reset no continuation scheduled before it takes effect: the
\* power-up is active at the centre with the lock released and no respawn pending,
\* and no entity's "already growing" guard is set.
C23_ResetCancelsContinuations ==
  [][ RoundResetStep =>
        /\ powerUpState' = PowerUpInit
        /\ ~isCollecting' /\ ~isCollectingRef'
        /\ ~respawnTimeout'
        /\ ~isGrowing'
        /\ aiIsGrowing' = {} ]_vars

\* C24: after restartCurrentGame the phase is playing, the game is not paused and
\* input is enabled, whatever the state it was invoked in.
C24_RestartSameLevelPlays ==
  [][ RestartClick => phase' = "playing" /\ ~isPaused' /\ isInputEnabled' ]_vars

\* C25: every transition from paused to unpaused leaves the physics clock re-armed:
\* unpaused and marked so that its next tick returns the minimal 1/120 s delta.
C25_ResumeRearmsClock ==
  [][ isPaused /\ ~isPaused' =>
        /\ ~physicsClock'.isPaused
        /\ physicsClock'.isFirstFrameAfterResume ]_vars

\* C29: in every settled state with the phase playing, a level selected and the
\* game not paused, player input is enabled.
C29_InputEnabledWhilePlaying ==
  phase = "playing" /\ hasSelectedLevel /\ ~isPaused => isInputEnabled

\* C26: each entity's scale equals 1.25 raised to its collected count of the
\* current round (scales are kept as exponents of 1.25).
C26_ScaleMatchesCount ==
  /\ scale = playerPowerUpsCollected
  /\ \A id \in AIIds : getScale(scales, id) = CountOf(aiBalls, id)

C26_Witness ==
  /\ scale = 2
  /\ playerPowerUpsCollected = 2
  /\ \E id \in AIIds : getScale(scales, id) = 1 /\ CountOf(aiBalls, id) = 1

\* C27: whenever the phase is ended a winner is recorded, with a reason.
C27_EndedHasWinner ==
  phase = "ended" => win.isWinner /\ win.winReason # "none"

\* C28: once a winner is recorded, its identity, isPlayer flag and reason do not
\* change until a reset clears the win state.
C28_WinnerIsFinal ==
  [][ win.isWinner /\ win'.isWinner =>
        /\ win'.winnerId = win.winnerId
        /\ win'.winnerIsPlayer = win.winnerIsPlayer
        /\ win'.winReason = win.winReason ]_vars

\* C30: while no speed boost is active the player body has its un-boosted values:
\* mass baseMass * scale^3 and linear damping 0.4.
C30_BoostRestored ==
  ~booster.isActive =>
    /\ playerBodyProps.mass = massOf(scale)
    /\ playerBodyProps.linearDamping = baseDamping
====
